---- MODULE Spec2Model ----
(***************************************************************************)
(* A model of the harmonic progression trainer of the ear-training         *)
(* application (ear_training/modules/progressions.py), of the web server   *)
(* and the training window that use it (web_app.py, ear_training/ui/gui.py)*)
(* and of the tone envelope (ear_training/ui/audio_player.py).             *)
(*                                                                         *)
(* Conventions.                                                            *)
(*  - A chord symbol (a member of the ChordNumber enum) is the string of    *)
(*    its member name.                                                     *)
(*  - A Python list is a TLA+ sequence; Python's 0-based positions are     *)
(*    kept wherever the code stores or returns one (an inversion, an index *)
(*    into next_notes).                                                    *)
(*  - An optional value (x | None) is a sequence of length at most one:    *)
(*    None is << >> and a present value x is << x >>.                      *)
(*  - random.choice / random.randint are nondeterministic choices over     *)
(*    the outcomes they can give.                                          *)
(*  - A frequency base_freq * 2^(s/12) is represented by its exponent s,   *)
(*    the number of semitones from A4 (an integer); the map s -> Hz is     *)
(*    strictly increasing.                                                 *)
(***************************************************************************)
EXTENDS Integers, Sequences, FiniteSets, TLC

VARIABLES
    current_progression,   \* self.current_progression : Option(progression)
    last_progression,      \* self.last_progression    : Option(progression)
    last_tonic_inversion,  \* self.last_tonic_inversion: Option(int)
    user_answer,           \* self.user_answer         : Option(progression)
    pc,                    \* where generate_progression stands: "idle", "curated", "walk"
    num_chords,            \* parameter num_chords of the running call : Option(int)
    start_on_tonic,        \* parameter start_on_tonic of the running call
    progression,           \* local variable progression of the running call : Option(progression)
    ret,                   \* what the last finished operation returned
    ncalls,                \* how many generate_progression calls have returned (counted up to 2)
    last_returned,         \* Option(the progression the latest generate_progression call returned)
    call,                  \* pure-function harness: the function applied and its arguments
    result,                \* pure-function harness: Option(value returned)
    handler,               \* web server: per session, the locals of its running get_progression
    response,              \* web server: per session, the responses sent to it so far
    deactivated_file,      \* web server: the chord names in deactivated_chords.json
    window                 \* the progression training window: its fields

vars == <<current_progression, last_progression, last_tonic_inversion, user_answer, pc,
          num_chords, start_on_tonic, progression, ret, ncalls, last_returned, call, result,
          handler, response, deactivated_file, window>>

trainerVars == <<current_progression, last_progression, last_tonic_inversion, user_answer, pc,
                 num_chords, start_on_tonic, progression, ret, ncalls, last_returned>>

harnessVars == <<call, result>>

webVars == <<handler, response, deactivated_file>>

guiVars == <<window>>

(***************************************************************************)
(* Bounds of the model.                                                    *)
(***************************************************************************)
\* the largest explicit num_chords passed to generate_progression, and the
\* cap on the length random.randint(2, 5) may draw
MaxChords == 2

\* get_chord_notes is applied to inversions -MaxInversion .. MaxInversion
MaxInversion == 6

\* base_octave ranges over DefaultOctave - OctaveSpread .. DefaultOctave + OctaveSpread
OctaveSpread == 1

(***************************************************************************)
(* Helpers.                                                                *)
(***************************************************************************)
None == << >>

Some(x) == << x >>

Range(s) == {s[i] : i \in 1..Len(s)}

Min(a, b) == IF a < b THEN a ELSE b

Abs(a) == IF a < 0 THEN -a ELSE a

RECURSIVE Sum(_)
Sum(s) == IF s = << >> THEN 0 ELSE s[1] + Sum(Tail(s))

(***************************************************************************)
(* class ChordNumber(Enum): name |-> (root semitone, chord type).          *)
(***************************************************************************)
\* list(ChordNumber): the members in definition order
ChordNumberList == <<"I", "IMAJ7", "II", "IIM7", "III", "IIIM7", "IIIAUG", "III7",
                     "IV", "IVMAJ7", "V", "V7", "VI", "VIM7", "VII", "VIIM7B5">>

ChordNumber == Range(ChordNumberList)

ChordValue == [c \in ChordNumber |->
    CASE c = "I"       -> <<0, "major">>
      [] c = "IMAJ7"   -> <<0, "maj7">>
      [] c = "II"      -> <<2, "minor">>
      [] c = "IIM7"    -> <<2, "m7">>
      [] c = "III"     -> <<4, "minor">>
      [] c = "IIIM7"   -> <<4, "m7">>
      [] c = "IIIAUG"  -> <<4, "augmented">>
      [] c = "III7"    -> <<4, "dominant7">>
      [] c = "IV"      -> <<5, "major">>
      [] c = "IVMAJ7"  -> <<5, "maj7">>
      [] c = "V"       -> <<7, "major">>
      [] c = "V7"      -> <<7, "dominant7">>
      [] c = "VI"      -> <<9, "minor">>
      [] c = "VIM7"    -> <<9, "m7">>
      [] c = "VII"     -> <<11, "diminished">>
      [] c = "VIIM7B5" -> <<11, "m7b5">>]

\* the dict `intervals` of get_chord_notes
intervals == [t \in {"major", "minor", "diminished", "augmented",
                     "dominant7", "maj7", "m7", "m7b5"} |->
    CASE t = "major"      -> <<0, 4, 7>>
      [] t = "minor"      -> <<0, 3, 7>>
      [] t = "diminished" -> <<0, 3, 6>>
      [] t = "augmented"  -> <<0, 4, 8>>
      [] t = "dominant7"  -> <<0, 4, 7, 10>>
      [] t = "maj7"       -> <<0, 4, 7, 11>>
      [] t = "m7"         -> <<0, 3, 7, 10>>
      [] t = "m7b5"       -> <<0, 3, 6, 10>>]

\* mutant: a library of one progression
common_progressions_single == << <<"I", "IV">> >>

\* self.common_progressions, in source order
common_progressions == <<
    <<"I", "IV">>,
    <<"I", "II">>,
    <<"I", "IV", "V">>,
    <<"I", "V", "IV">>,
    <<"I", "VI", "IV", "V">>,
    <<"I", "IV", "I", "V">>,
    <<"I", "IV", "V", "I">>,
    <<"VI", "IV", "I", "V">>,
    <<"I", "V", "VI", "IV">>,
    <<"I", "III", "VI", "IV", "V">>,
    <<"I", "IIIAUG", "VI", "IV", "V">>,
    <<"I", "II", "V">>,
    <<"I", "V", "I">>,
    <<"IMAJ7", "VI", "IIM7", "V7">>,
    <<"IMAJ7", "IV", "V7">>,
    <<"I", "VIM7", "IIM7", "V7">>,
    <<"IMAJ7", "IVMAJ7", "V7", "IMAJ7">>,
    <<"I", "VI", "IIM7", "V7">>,
    <<"IMAJ7", "VI", "IV", "V7">>,
    <<"VI", "IV", "V", "VI">>,
    <<"VI", "VII", "VI">>,
    <<"VI", "III", "VII", "VI">>,
    <<"VI", "IV", "VII">>,
    <<"VI", "I", "V">>,
    <<"VI", "II", "V">>,
    <<"VI", "IV", "I">>,
    <<"VI", "IV", "V", "VII">>,
    <<"VI", "II", "VII", "VI">>,
    <<"VIM7", "IV", "V7", "VIM7">>,
    <<"VI", "IIM7", "V7", "VI">>,
    <<"VIM7", "IIM7", "V7">>,
    <<"VI", "IVMAJ7", "V7", "VI">>,
    <<"VIM7", "III", "V7", "VI">> >>

\* the dict voice_leading_preferences of _choose_next_chord
voice_leading_preferences == [c \in ChordNumber |->
    CASE c = "I"       -> <<"IV", "V", "V7", "VI", "II", "III", "IIIAUG", "III7", "VII",
                            "IMAJ7", "IIM7", "IIIM7", "IVMAJ7", "VIM7", "VIIM7B5">>
      [] c = "IMAJ7"   -> <<"IV", "IVMAJ7", "V", "V7", "VI", "VIM7", "II", "IIM7">>
      [] c = "II"      -> <<"V", "V7", "IV", "VII", "VIIM7B5">>
      [] c = "IIM7"    -> <<"V", "V7", "IV", "IVMAJ7", "VII", "VIIM7B5">>
      [] c = "III"     -> <<"VI", "IIIAUG", "III7", "IV", "I", "VIM7">>
      [] c = "IIIM7"   -> <<"VI", "VIM7", "IV", "IVMAJ7", "I">>
      [] c = "IIIAUG"  -> <<"VI", "III", "III7", "IV", "I">>
      [] c = "III7"    -> <<"VI", "IV", "I">>
      [] c = "IV"      -> <<"I", "V", "V7", "II", "IMAJ7", "VII">>
      [] c = "IVMAJ7"  -> <<"I", "IMAJ7", "V", "V7", "II", "IIM7">>
      [] c = "V"       -> <<"I", "VI", "IV", "VII", "IMAJ7", "VIM7">>
      [] c = "V7"      -> <<"I", "IMAJ7", "VI", "VIM7", "IV", "VII">>
      [] c = "VI"      -> <<"IV", "IVMAJ7", "I", "IMAJ7", "II", "IIM7", "III", "IIIM7",
                            "IIIAUG", "III7", "VII", "V", "VIM7">>
      [] c = "VIM7"    -> <<"IV", "IVMAJ7", "I", "IMAJ7", "II", "IIM7", "III", "IIIM7">>
      [] c = "VII"     -> <<"I", "IMAJ7", "VI", "VIM7">>
      [] c = "VIIM7B5" -> <<"I", "IMAJ7", "VI", "VIM7">>]

(***************************************************************************)
(* get_chord_notes                                                         *)
(***************************************************************************)
\* [i + 12 for i in s]
PlusOctave(s) == [i \in 1..Len(s) |-> s[i] + 12]

\* Python's s[k:] and s[:k] for 0 <= k
SliceFrom(s, k) == SubSeq(s, Min(k, Len(s)) + 1, Len(s))

SliceTo(s, k) == SubSeq(s, 1, Min(k, Len(s)))

\* mutant: the modulo guard on the inversion is missing
get_chord_notes_noguard(chord, inversion) ==
    LET root == ChordValue[chord][1]
        chord_intervals == intervals[ChordValue[chord][2]]
        rotated == IF inversion > 0
                   THEN SliceFrom(chord_intervals, inversion)
                            \o PlusOctave(SliceTo(chord_intervals, inversion))
                   ELSE chord_intervals
    IN  [i \in 1..Len(rotated) |-> root + rotated[i]]

\* mutant: the wrapped prefix loses its last note (an off-by-one in the slice)
get_chord_notes_offbyone(chord, inversion) ==
    LET root == ChordValue[chord][1]
        chord_intervals == intervals[ChordValue[chord][2]]
        n == Len(chord_intervals)
        inv == inversion % n
        rotated == IF inv > 0
                   THEN SliceFrom(chord_intervals, inv)
                            \o PlusOctave(SliceTo(chord_intervals, inv - 1))
                   ELSE chord_intervals
    IN  [i \in 1..Len(rotated) |-> root + rotated[i]]

\* mutant: a remainder that keeps the sign of the inversion (C-style %)
get_chord_notes_truncmod(chord, inversion) ==
    LET root == ChordValue[chord][1]
        chord_intervals == intervals[ChordValue[chord][2]]
        n == Len(chord_intervals)
        inv == IF inversion < 0 THEN -((-inversion) % n) ELSE inversion % n
        rotated == IF inv > 0
                   THEN SliceFrom(chord_intervals, inv)
                            \o PlusOctave(SliceTo(chord_intervals, inv))
                   ELSE chord_intervals
    IN  [i \in 1..Len(rotated) |-> root + rotated[i]]

get_chord_notes(chord, inversion) ==
    LET root == ChordValue[chord][1]
        chord_type == ChordValue[chord][2]
        chord_intervals == intervals[chord_type]
        n == Len(chord_intervals)
        inv == inversion % n
        rotated == IF inv > 0
                   THEN SliceFrom(chord_intervals, inv)
                            \o PlusOctave(SliceTo(chord_intervals, inv))
                   ELSE chord_intervals
    IN  [i \in 1..Len(rotated) |-> root + rotated[i]]

\* len(self.get_chord_notes(chord, 0)): 3 for triads, 4 for sevenths
NumInversions(chord) == Len(get_chord_notes(chord, 0))

(***************************************************************************)
(* _calculate_optimal_voice_distance                                       *)
(*                                                                         *)
(* float('inf') is None (no distance found yet); every distance the code   *)
(* compares with it is a finite integer.                                   *)
(***************************************************************************)
\* mutant: only the written octave of the candidate is tried
octave_offsets_written_only == <<0>>

\* mutant: the candidate is moved by one octave at most
octave_offsets_one_octave == <<-1, 0, 1>>

\* range(-2, 3)
octave_offsets == <<-2, -1, 0, 1, 2>>

\* lines 395-397: the distances from prev_note to next_note moved by each octave offset
OctaveDistances(prev_note, next_note) ==
    {Abs((next_note + (octave_offsets[k] * 12)) - prev_note) : k \in 1..Len(octave_offsets)}

\* the least of them: what the loop over octave_offset can lower best_distance to
NearestOctaveDistance(prev_note, next_note) ==
    LET ds == OctaveDistances(prev_note, next_note)
    IN  CHOOSE d \in ds : \A e \in ds : d <= e

\* The loops of lines 385-401 for one prev_note.  best_distance starts at
\* float('inf') and is replaced only by a strictly smaller distance, so they end with
\* the least distance to a note that is not assigned yet and with the first index
\* that reaches it; with every index assigned they leave best_next_idx = -1.
NearestUnassigned(prev_note, next_notes, assigned_indices) ==
    LET open == {idx \in 0..(Len(next_notes) - 1) : idx \notin assigned_indices}
        dist == [idx \in open |-> NearestOctaveDistance(prev_note, next_notes[idx + 1])]
    IN  IF open = {}
        THEN [best_next_idx |-> -1, best_distance |-> None]
        ELSE LET least == CHOOSE d \in {dist[idx] : idx \in open} :
                              \A idx \in open : d <= dist[idx]
                 first == CHOOSE idx \in open :
                              /\ dist[idx] = least
                              /\ \A other \in open : dist[other] = least => idx <= other
             IN  [best_next_idx |-> first, best_distance |-> Some(least)]

\* mutant: the chosen candidate is not marked as assigned
MarkAssigned_forgotten(assigned_indices, best_next_idx) == assigned_indices

\* assigned_indices.add(best_next_idx)
MarkAssigned(assigned_indices, best_next_idx) == assigned_indices \cup {best_next_idx}

\* the loop `for prev_note in previous_notes` from its i-th note on;
\* acc = [total_distance, assigned_indices, choices], where choices records, per
\* previous note processed, the best_next_idx and best_distance its scan ended with
RECURSIVE AssignVoices(_, _, _, _)
AssignVoices(previous_notes, next_notes, i, acc) ==
    IF i > Len(previous_notes) THEN acc
    ELSE LET best == NearestUnassigned(previous_notes[i], next_notes, acc.assigned_indices)
         IN  AssignVoices(previous_notes, next_notes, i + 1,
                 IF best.best_next_idx >= 0
                 THEN [total_distance   |-> acc.total_distance + best.best_distance[1],
                       assigned_indices |-> MarkAssigned(acc.assigned_indices, best.best_next_idx),
                       choices          |-> Append(acc.choices, best)]
                 ELSE [acc EXCEPT !.choices = Append(@, best)])

\* the whole run of the function: its locals when the outer loop has ended
VoiceAssignment(previous_notes, next_notes) ==
    AssignVoices(previous_notes, next_notes, 1,
                 [total_distance |-> 0, assigned_indices |-> {}, choices |-> << >>])

_calculate_optimal_voice_distance(previous_notes, next_notes) ==
    VoiceAssignment(previous_notes, next_notes).total_distance

(***************************************************************************)
(* _select_best_inversion                                                  *)
(***************************************************************************)
\* mutant: a later inversion of equal cost replaces the earlier one
ImprovesTotal_orEqual(total_distance, best_total_distance) ==
    best_total_distance = None \/ total_distance <= best_total_distance[1]

\* total_distance < best_total_distance
ImprovesTotal(total_distance, best_total_distance) ==
    best_total_distance = None \/ total_distance < best_total_distance[1]

\* the loop `for inversion in range(num_inversions)` from inversion on;
\* best = [best_inversion, best_total_distance]
RECURSIVE TryInversions(_, _, _, _)
TryInversions(chord, previous_notes, inversion, best) ==
    IF inversion >= NumInversions(chord) THEN best
    ELSE LET chord_notes == get_chord_notes(chord, inversion)
             total_distance == _calculate_optimal_voice_distance(previous_notes, chord_notes)
         IN  TryInversions(chord, previous_notes, inversion + 1,
                 IF ImprovesTotal(total_distance, best.best_total_distance)
                 THEN [best_inversion |-> inversion, best_total_distance |-> Some(total_distance)]
                 ELSE best)

\* (the parameter base_octave is never read by the code and is left out)
_select_best_inversion(chord, previous_notes) ==
    TryInversions(chord, previous_notes, 0,
                  [best_inversion |-> 0, best_total_distance |-> None]).best_inversion

(***************************************************************************)
(* _select_best_inversion_for_next                                         *)
(*                                                                         *)
(* The code compares floats abs(sum(a)/len(a) - sum(b)/len(b)).  Here the  *)
(* distance is kept exact and scaled by len(a) * len(b), which is the same *)
(* positive factor for every inversion of one call:                        *)
(*     |sum(a) * len(b) - sum(b) * len(a)|.                                *)
(* On all 16 x 16 chord pairs and every last_tonic_inversion the float     *)
(* computation of the code orders the inversions as the exact one does.    *)
(***************************************************************************)
MeanDistance(chord_notes, next_chord_notes) ==
    Abs(Sum(chord_notes) * Len(next_chord_notes) - Sum(next_chord_notes) * Len(chord_notes))

\* inversions_with_distance after the loop `for inversion in range(num_inversions)`
InversionsWithDistance(chord, next_chord) ==
    LET next_chord_notes == get_chord_notes(next_chord, 0)
    IN  [k \in 1..NumInversions(chord) |->
            [inversion |-> k - 1,
             distance  |-> MeanDistance(get_chord_notes(chord, k - 1), next_chord_notes)]]

\* list.sort(key=lambda x: x[1]): stable, ascending; insertion of item into a sorted list
RECURSIVE InsertByDistance(_, _)
InsertByDistance(sorted, item) ==
    IF sorted = << >> THEN <<item>>
    ELSE IF item.distance < sorted[1].distance
         THEN <<item>> \o sorted
         ELSE <<sorted[1]>> \o InsertByDistance(Tail(sorted), item)

RECURSIVE SortByDistance(_)
SortByDistance(list) ==
    IF list = << >> THEN << >>
    ELSE InsertByDistance(SortByDistance(SubSeq(list, 1, Len(list) - 1)), list[Len(list)])

\* mutant: the entry of least distance is taken without looking at the last inversion
FirstDifferent_leastOnly(sorted, k, self_last_tonic_inversion) == sorted[1].inversion

\* the loop `for inversion, distance in inversions_with_distance: ... break` with its
\* else branch; sorted is the sorted list, k the position the loop stands at
RECURSIVE FirstDifferent(_, _, _)
FirstDifferent(sorted, k, self_last_tonic_inversion) ==
    IF k > Len(sorted) THEN sorted[1].inversion
    ELSE IF Some(sorted[k].inversion) # self_last_tonic_inversion
         THEN sorted[k].inversion
         ELSE FirstDifferent(sorted, k + 1, self_last_tonic_inversion)

\* mutant: the inversion used last time is not avoided
_select_best_inversion_for_next_noavoid(chord, next_chord, self_last_tonic_inversion) ==
    SortByDistance(InversionsWithDistance(chord, next_chord))[1].inversion

\* the value returned, which is also stored into self.last_tonic_inversion (line 325:
\* the store is made by the action of the caller); the parameter base_octave is never
\* read by the code and is left out
_select_best_inversion_for_next(chord, next_chord, self_last_tonic_inversion) ==
    FirstDifferent(SortByDistance(InversionsWithDistance(chord, next_chord)), 1,
                   self_last_tonic_inversion)

(***************************************************************************)
(* generate_progression                                                    *)
(***************************************************************************)
\* random.choice(preferred_chords): the chords it can return
_choose_next_chord(current_chord) == Range(voice_leading_preferences[current_chord])

\* the first chord: [ChordNumber.I] or [random.choice(list(ChordNumber))]
SeedProgressions(sot) ==
    IF sot THEN {<<"I">>} ELSE {<<c>> : c \in ChordNumber}

\* the loop `while len(progression) < num_chords` run on every progression of the
\* set partial (all of one length): the progressions it can end with
RECURSIVE GrowProgressions(_, _)
GrowProgressions(partial, num) ==
    IF \A p \in partial : ~(Len(p) < num) THEN partial
    ELSE GrowProgressions(
             UNION {{Append(p, next_chord) : next_chord \in _choose_next_chord(p[Len(p)])}
                    : p \in partial},
             num)

\* explicit values of the parameter num_chords (0 stands for every value below 1:
\* the loop above appends nothing for them) and None
NumChordsArgs == {None} \cup {Some(n) : n \in 0..MaxChords}

\* random.randint(2, 5), capped by the bound of the model
RandintOutcomes == {n \in 2..5 : n <= MaxChords}

\* the progressions one pass of the body of `while True` can build, tabulated
WalkTable == [sot \in BOOLEAN |-> [num \in 0..MaxChords |->
                 GrowProgressions(SeedProgressions(sot), num)]]

WalkOutcomes(num, sot) == WalkTable[sot][num]

\* mutant: the while condition of curated mode never asks for a new draw
CuratedRepeats_never(candidate, self_last_progression) == FALSE

\* progression == self.last_progression (line 102)
CuratedRepeats(candidate, self_last_progression) == Some(candidate) = self_last_progression

\* mutant: the walk is accepted whatever the last progression was
WalkDiffers_always(candidate, self_last_progression) == TRUE

\* progression != self.last_progression (line 127)
WalkDiffers(candidate, self_last_progression) == Some(candidate) # self_last_progression

NoReturn == [op |-> "none", args |-> << >>, raised |-> None, value |-> << >>, voicing |-> << >>]

NoCall == [fn |-> "none"]

\* no progression training window has been opened
NoWindow == [open |-> FALSE]

\* entry of generate_progression: the mode is chosen and, in constrained-walk mode,
\* a missing num_chords is drawn; ret keeps the arguments as they were passed
GenerateCall ==
    /\ pc = "idle"
    /\ \E n \in NumChordsArgs, sot \in BOOLEAN, use_common_only \in BOOLEAN :
          /\ IF use_common_only
             THEN pc' = "curated" /\ num_chords' = n
             ELSE /\ pc' = "walk"
                  /\ IF n = None
                     THEN \E r \in RandintOutcomes : num_chords' = Some(r)
                     ELSE num_chords' = n
          /\ start_on_tonic' = sot
          /\ ret' = [NoReturn EXCEPT !.args = [num_chords |-> n, start_on_tonic |-> sot,
                                               use_common_only |-> use_common_only]]
    /\ progression' = None
    /\ UNCHANGED <<current_progression, last_progression, last_tonic_inversion, user_answer,
                   ncalls, last_returned>>
    /\ UNCHANGED <<harnessVars, webVars, guiVars>>

\* mutant: the progression returned is not remembered as the last one
GenerateReturn_lastNotStored(p) ==
    /\ current_progression' = Some(p)
    /\ ret' = [ret EXCEPT !.op = "generate_progression", !.value = p]
    /\ pc' = "idle"
    /\ num_chords' = None
    /\ start_on_tonic' = FALSE
    /\ progression' = None
    /\ ncalls' = Min(ncalls + 1, 2)
    /\ last_returned' = Some(p)
    /\ UNCHANGED <<last_progression, last_tonic_inversion, user_answer>>
    /\ UNCHANGED <<harnessVars, webVars, guiVars>>

\* lines 104-106 and 130-132: the progression is stored and returned
GenerateReturn(p) ==
    /\ last_progression' = Some(p)
    /\ current_progression' = Some(p)
    /\ ret' = [ret EXCEPT !.op = "generate_progression", !.value = p]
    /\ pc' = "idle"
    /\ num_chords' = None
    /\ start_on_tonic' = FALSE
    /\ progression' = None
    /\ ncalls' = Min(ncalls + 1, 2)
    /\ last_returned' = Some(p)
    /\ UNCHANGED <<last_tonic_inversion, user_answer>>
    /\ UNCHANGED <<harnessVars, webVars, guiVars>>

\* a draw that equals last_progression: the while loop of line 102 goes round
CuratedResample ==
    /\ pc = "curated"
    /\ \E p \in Range(common_progressions) :
          /\ CuratedRepeats(p, last_progression)
          /\ progression' = Some(p)
    /\ UNCHANGED <<current_progression, last_progression, last_tonic_inversion, user_answer,
                   pc, num_chords, start_on_tonic, ret, ncalls, last_returned>>
    /\ UNCHANGED <<harnessVars, webVars, guiVars>>

\* a draw that differs from last_progression
CuratedReturn ==
    /\ pc = "curated"
    /\ \E p \in Range(common_progressions) :
          /\ ~CuratedRepeats(p, last_progression)
          /\ GenerateReturn(p)

\* one pass of `while True` that ends without break
WalkResample ==
    /\ pc = "walk"
    /\ \E p \in WalkOutcomes(num_chords[1], start_on_tonic) :
          /\ ~WalkDiffers(p, last_progression)
          /\ progression' = Some(p)
    /\ UNCHANGED <<current_progression, last_progression, last_tonic_inversion, user_answer,
                   pc, num_chords, start_on_tonic, ret, ncalls, last_returned>>
    /\ UNCHANGED <<harnessVars, webVars, guiVars>>

\* one pass of `while True` that ends with break
WalkReturn ==
    /\ pc = "walk"
    /\ \E p \in WalkOutcomes(num_chords[1], start_on_tonic) :
          /\ WalkDiffers(p, last_progression)
          /\ GenerateReturn(p)

(***************************************************************************)
(* get_progression_frequencies                                             *)
(***************************************************************************)
DefaultOctave == 4

BaseOctaves == (DefaultOctave - OctaveSpread)..(DefaultOctave + OctaveSpread)

\* mutant: the octave a note above the first twelve semitones lies in is dropped
SemitonesFromA4_octaveDropped(note_semitone, octave_base) ==
    (octave_base - 4) * 12 + (note_semitone % 12) - 9

\* lines 248-252 (and 264-266): the exponent of the frequency of a note
SemitonesFromA4(note_semitone, octave_base) ==
    LET octave == octave_base + (note_semitone \div 12)
        note_in_octave == note_semitone % 12
    IN  (octave - 4) * 12 + note_in_octave - 9

\* mutant: the bass note is the lowest note of the voicing, an octave lower
ChordFrequencies_bassFromVoicing(chord, chord_notes, base_octave, include_bass_line) ==
    LET frequencies == [j \in 1..Len(chord_notes) |->
                           SemitonesFromA4(chord_notes[j], base_octave)]
        bass_frequency == SemitonesFromA4(chord_notes[1], base_octave - 1)
    IN  IF include_bass_line THEN <<bass_frequency>> \o frequencies ELSE frequencies

\* the list `frequencies` of one chord
ChordFrequencies(chord, chord_notes, base_octave, include_bass_line) ==
    LET frequencies == [j \in 1..Len(chord_notes) |->
                           SemitonesFromA4(chord_notes[j], base_octave)]
        root_semitone == get_chord_notes(chord, 0)[1]
        bass_octave == base_octave - 1
        bass_frequency == SemitonesFromA4(root_semitone, bass_octave)
    IN  IF include_bass_line THEN <<bass_frequency>> \o frequencies ELSE frequencies

\* every value chord_notes, and so previous_notes (line 271), can take: the voicings
\* of the chords at the inversions range(num_inversions)
AllVoicings ==
    UNION {{get_chord_notes(c, k) : k \in 0..(NumInversions(c) - 1)} : c \in ChordNumber}

\* _select_best_inversion tabulated over its arguments (each value is computed once)
BestInversionTable ==
    [c \in ChordNumber |-> [v \in AllVoicings |-> _select_best_inversion(c, v)]]

\* mutant: later chords are voiced against the root position of the chord before
ChosenInversion_againstRootPosition(prog, i, previous_notes, use_inversions, self_last_tonic_inversion) ==
    IF i = 0 /\ Len(prog) > 1
    THEN _select_best_inversion_for_next(prog[1], prog[2], self_last_tonic_inversion)
    ELSE IF use_inversions /\ previous_notes # None
         THEN BestInversionTable[prog[i + 1]][get_chord_notes(prog[i], 0)]
         ELSE 0

\* the inversion chosen for the chord at position i (0-based) of the progression
ChosenInversion(prog, i, previous_notes, use_inversions, self_last_tonic_inversion) ==
    IF i = 0 /\ Len(prog) > 1
    THEN _select_best_inversion_for_next(prog[1], prog[2], self_last_tonic_inversion)
    ELSE IF use_inversions /\ previous_notes # None
         THEN BestInversionTable[prog[i + 1]][previous_notes[1]]
         ELSE 0

\* the loop `for i, chord in enumerate(self.current_progression)` from position i on;
\* acc lists, per chord done, the inversion, the chord_notes and the frequencies
RECURSIVE VoiceProgression(_, _, _, _, _, _, _, _)
VoiceProgression(prog, i, previous_notes, base_octave, use_inversions, include_bass_line, self_last_tonic_inversion, acc) ==
    IF i >= Len(prog) THEN acc
    ELSE LET chord == prog[i + 1]
             inversion == ChosenInversion(prog, i, previous_notes, use_inversions,
                                          self_last_tonic_inversion)
             chord_notes == get_chord_notes(chord, inversion)
             frequencies == ChordFrequencies(chord, chord_notes, base_octave, include_bass_line)
         IN  VoiceProgression(prog, i + 1, Some(chord_notes), base_octave, use_inversions,
                              include_bass_line, self_last_tonic_inversion,
                              Append(acc, [inversion |-> inversion, chord_notes |-> chord_notes,
                                           frequencies |-> frequencies]))

\* mutant: the check of line 225 fails whatever current_progression is
NoProgression_always(self_current_progression) == TRUE

\* self.current_progression is None (line 225)
NoProgression(self_current_progression) == self_current_progression = None

GetProgressionFrequencies ==
    /\ pc = "idle"
    /\ \E base_octave \in BaseOctaves, use_inversions \in BOOLEAN, include_bass_line \in BOOLEAN :
          LET args == [base_octave |-> base_octave, use_inversions |-> use_inversions,
                       include_bass_line |-> include_bass_line]
          IN  IF NoProgression(current_progression)
              THEN /\ ret' = [NoReturn EXCEPT !.op = "get_progression_frequencies",
                                              !.args = args, !.raised = Some("ValueError")]
                   /\ UNCHANGED last_tonic_inversion
              ELSE LET prog == current_progression[1]
                   IN  \E voiced \in {VoiceProgression(prog, 0, None, base_octave, use_inversions,
                                                  include_bass_line, last_tonic_inversion, << >>)} :
                       /\ ret' = [NoReturn EXCEPT
                                     !.op = "get_progression_frequencies",
                                     !.args = args,
                                     !.value = [j \in 1..Len(voiced) |-> voiced[j].frequencies],
                                     !.voicing = [j \in 1..Len(voiced) |->
                                                     [inversion |-> voiced[j].inversion,
                                                      chord_notes |-> voiced[j].chord_notes]]]
                       /\ last_tonic_inversion' =
                              IF Len(prog) > 1 THEN Some(voiced[1].inversion)
                                               ELSE last_tonic_inversion
    /\ UNCHANGED <<current_progression, last_progression, user_answer, pc, num_chords,
                   start_on_tonic, progression, ncalls, last_returned>>
    /\ UNCHANGED <<harnessVars, webVars, guiVars>>

(***************************************************************************)
(* submit_answer                                                           *)
(***************************************************************************)
\* the guesses submitted: one chord, two chords in both orders, three chords
UserProgressions == {<<"I">>, <<"I", "IV">>, <<"IV", "I">>, <<"I", "IV", "V">>}

\* mutant: the chords are compared as a collection, whatever their order
AnswerMatches_anyOrder(user_progression, self_current_progression) ==
    /\ self_current_progression # None
    /\ Len(user_progression) = Len(self_current_progression[1])
    /\ Range(user_progression) = Range(self_current_progression[1])

\* user_progression == self.current_progression (line 419): a list never equals None
AnswerMatches(user_progression, self_current_progression) ==
    Some(user_progression) = self_current_progression

\* mutant: the answer submitted also replaces the progression it is compared with
SubmitAnswer_overwrites ==
    /\ pc = "idle"
    /\ \E user_progression \in UserProgressions :
          /\ user_answer' = Some(user_progression)
          /\ current_progression' = Some(user_progression)
          /\ ret' = [NoReturn EXCEPT
                        !.op = "submit_answer",
                        !.args = user_progression,
                        !.value = AnswerMatches(user_progression, current_progression)]
    /\ UNCHANGED <<last_progression, last_tonic_inversion, pc,
                   num_chords, start_on_tonic, progression, ncalls, last_returned>>
    /\ UNCHANGED <<harnessVars, webVars, guiVars>>

SubmitAnswer ==
    /\ pc = "idle"
    /\ \E user_progression \in UserProgressions :
          /\ user_answer' = Some(user_progression)
          /\ ret' = [NoReturn EXCEPT
                        !.op = "submit_answer",
                        !.args = user_progression,
                        !.value = AnswerMatches(user_progression, current_progression)]
    /\ UNCHANGED <<current_progression, last_progression, last_tonic_inversion, pc,
                   num_chords, start_on_tonic, progression, ncalls, last_returned>>
    /\ UNCHANGED <<harnessVars, webVars, guiVars>>

(***************************************************************************)
(* The web server: one trainer shared by the handlers of all sessions.     *)
(***************************************************************************)
\* the number of sessions that talk to the server
NumSessions == 2

Sessions == 1..NumSessions

\* the number of requests made to the server, over all sessions
MaxRequests == 2

\* max_attempts of get_progression
max_attempts == 20

\* the locals of a handler that is not running
IdleHandler == [at |-> "idle"]

\* the request bodies after lines 76-83: num_chords is an integer or None ('Random' or
\* absent), start_on_tonic is left at its default
WebRequestData ==
    {[num_chords |-> n, start_on_tonic |-> TRUE, use_common_only |-> u] :
        n \in {None} \cup {Some(k) : k \in 1..MaxChords}, u \in BOOLEAN}

\* the contents deactivated_chords.json is given: no chord (or no file), the tonic, the
\* subdominant
DeactivatedChordLists == {{}, {"I"}, {"IV"}}

\* name_map.get(chord, chord.name)
ChordDisplayName(chord) == IF chord = "IIIAUG" THEN "III+" ELSE chord

\* the progressions one call of generate_progression can return to the handler
GenerateOutcomes(data, self_last_progression) ==
    IF data.use_common_only
    THEN {p \in Range(common_progressions) : ~CuratedRepeats(p, self_last_progression)}
    ELSE LET lengths == IF data.num_chords = None THEN RandintOutcomes
                                                  ELSE {data.num_chords[1]}
         IN  {p \in UNION {WalkOutcomes(k, data.start_on_tonic) : k \in lengths} :
                 WalkDiffers(p, self_last_progression)}

\* the requests made so far: those answered and those whose handler is running
RequestsMade ==
    Sum([s \in Sessions |-> Len(response[s]) + IF handler[s].at = "idle" THEN 0 ELSE 1])

\* lines 73-92: a request arrives and its handler runs up to the loop
WebRequest(s) ==
    /\ handler[s].at = "idle"
    /\ RequestsMade < MaxRequests
    /\ \E data \in WebRequestData :
          handler' = [handler EXCEPT ![s] =
                         [at |-> "loop", data |-> data,
                          deactivated_chord_names |-> deactivated_file,
                          attempt |-> 0, valid_progression |-> FALSE,
                          progression |-> None]]
    /\ UNCHANGED <<trainerVars, harnessVars, response, deactivated_file, guiVars>>

\* lines 94-115: one pass of the loop, with its call of generate_progression on the
\* shared trainer
WebGenerate(s) ==
    /\ handler[s].at = "loop"
    /\ ~handler[s].valid_progression /\ handler[s].attempt < max_attempts
    /\ \E p \in GenerateOutcomes(handler[s].data, last_progression) :
          LET has_deactivated ==
                  \E i \in 1..Len(p) :
                      ChordDisplayName(p[i]) \in handler[s].deactivated_chord_names
              attempt == handler[s].attempt + 1
          IN  /\ last_progression' = Some(p)
              /\ current_progression' = Some(p)
              /\ last_returned' = Some(p)
              /\ handler' = [handler EXCEPT ![s] =
                                [@ EXCEPT !.progression = Some(p),
                                          !.valid_progression = ~has_deactivated,
                                          !.attempt = attempt,
                                          !.at = IF has_deactivated /\ attempt < max_attempts
                                                 THEN "loop" ELSE "render"]]
    /\ ncalls' = Min(ncalls + 1, 2)
    /\ UNCHANGED <<last_tonic_inversion, user_answer, pc, num_chords, start_on_tonic,
                   progression, ret>>
    /\ UNCHANGED <<harnessVars, response, deactivated_file, guiVars>>

\* lines 117-131: the frequencies are asked of the shared trainer and the response is
\* sent
WebRender(s) ==
    /\ handler[s].at = "render"
    /\ IF handler[s].progression = None
       THEN /\ response' = [response EXCEPT ![s] =
                               Append(@, [status |-> 500,
                                          error |-> "Could not generate a valid progression"])]
            /\ UNCHANGED last_tonic_inversion
       ELSE \E voiced \in {VoiceProgression(current_progression[1], 0, None, DefaultOctave,
                                            TRUE, FALSE, last_tonic_inversion, << >>)} :
                LET p == handler[s].progression[1]
                IN  /\ response' = [response EXCEPT ![s] =
                           Append(@, [status |-> 200,
                                      progression |-> [j \in 1..Len(p) |-> ChordDisplayName(p[j])],
                                      length |-> Len(p),
                                      frequencies |-> [j \in 1..Len(voiced) |->
                                                          voiced[j].frequencies]])]
                    /\ last_tonic_inversion' =
                           IF Len(current_progression[1]) > 1 THEN Some(voiced[1].inversion)
                                                              ELSE last_tonic_inversion
    /\ handler' = [handler EXCEPT ![s] = IdleHandler]
    /\ UNCHANGED <<current_progression, last_progression, user_answer, pc, num_chords,
                   start_on_tonic, progression, ret, ncalls, last_returned>>
    /\ UNCHANGED <<harnessVars, deactivated_file, guiVars>>

NextWeb ==
    \E s \in Sessions :
        \/ WebRequest(s)
        \/ WebGenerate(s)
        \/ WebRender(s)

(***************************************************************************)
(* Root emphasis: play_chord_with_options of the window and play_chord of  *)
(* the web server.  Semitone positions that are not whole numbers are      *)
(* kept in units of 1/PitchScale semitone.                                 *)
(***************************************************************************)
PitchScale == 100000

\* 12 * log2(440 / 262) = 8.97524...: A4 seen from the 262 Hz both functions take for C4
A4FromReference == 897524

\* np.log2(freq / 262) * 12
semitones_from_c4(freq) == freq * PitchScale + A4FromReference

\* min(abs(note_class - target_note_class), 12 - abs(note_class - target_note_class))
RootDistance(freq, chord_semitone_offset) ==
    LET note_class == semitones_from_c4(freq) % (12 * PitchScale)
        target_note_class == (chord_semitone_offset % 12) * PitchScale
    IN  Min(Abs(note_class - target_note_class),
            12 * PitchScale - Abs(note_class - target_note_class))

\* the loop over frequencies: root_freq is the first frequency of least distance, and
\* stays None when there is no frequency
NearestToRoot(frequencies, chord_semitone_offset) ==
    IF frequencies = << >> THEN None
    ELSE LET best == CHOOSE i \in 1..Len(frequencies) :
                         \A j \in 1..Len(frequencies) :
                             \/ RootDistance(frequencies[i], chord_semitone_offset)
                                    < RootDistance(frequencies[j], chord_semitone_offset)
                             \/ /\ RootDistance(frequencies[i], chord_semitone_offset)
                                       = RootDistance(frequencies[j], chord_semitone_offset)
                                /\ i <= j
         IN  Some(frequencies[best])

\* min(frequencies)
LowestFrequency(frequencies) ==
    CHOOSE f \in Range(frequencies) : \A g \in Range(frequencies) : f <= g

\* play_chord_with_options with root_volume_multiplier > 1: the frequency emphasised
play_chord_with_options(frequencies, chord) ==
    LET root_freq == NearestToRoot(frequencies, ChordValue[chord][1])
    IN  IF root_freq = None THEN LowestFrequency(frequencies) ELSE root_freq[1]

\* play_chord with root_volume_multiplier > 1: the frequency emphasised
play_chord(frequencies, chord_name) ==
    LET root_freq == IF chord_name \in ChordNumber
                     THEN NearestToRoot(frequencies, ChordValue[chord_name][1])
                     ELSE None
    IN  IF root_freq = None THEN LowestFrequency(frequencies) ELSE root_freq[1]

(***************************************************************************)
(* AudioPlayer._adsr_envelope.  Time is counted in samples at a sample     *)
(* rate of TicksPerSecond, a level is a fraction <<numerator, denominator>> *)
(* with a positive denominator.                                            *)
(***************************************************************************)
\* self.sample_rate: every time of the instrument profiles is a whole number of samples
TicksPerSecond == 100

\* the sustain levels of the profiles are whole numbers of 1/LevelScale
LevelScale == 100

\* the largest number of samples of a tone: num_samples = int(sample_rate * duration)
MaxSamples == 100

\* the arguments generate_rich_tone passes to _adsr_envelope for each instrument:
\* attack, decay and release in samples, sustain in 1/LevelScale
InstrumentProfiles ==
    [instrument \in {"piano", "bell", "violin", "flute"} |->
        CASE instrument = "piano"  -> [attack |-> 1,  decay |-> 30, sustain |-> 20, release |-> 20]
          [] instrument = "bell"   -> [attack |-> 15, decay |-> 10, sustain |-> 80, release |-> 30]
          [] instrument = "violin" -> [attack |-> 3,  decay |-> 5,  sustain |-> 90, release |-> 10]
          [] instrument = "flute"  -> [attack |-> 15, decay |-> 2,  sustain |-> 85, release |-> 8]]

\* np.maximum(0, x)
Maximum0(x) == IF x < 0 THEN 0 ELSE x

\* the envelope of a tone of num_samples samples (t = 0, ..., num_samples - 1): the
\* four masked assignments in the order of the code, a later one overwriting
_adsr_envelope(num_samples, attack, decay, sustain, release) ==
    LET total_duration == num_samples - 1
        decay_start == attack
        decay_end == attack + decay
        sustain_start == decay_end
        release_start == total_duration - release
        ones(t) == <<1, 1>>
        attacked(t) ==
            IF t <= attack /\ attack > 0 THEN <<t, attack>> ELSE ones(t)
        decayed(t) ==
            IF t > decay_start /\ t <= decay_end /\ decay > 0
            THEN <<LevelScale * decay - (LevelScale - sustain) * (t - decay_start),
                   LevelScale * decay>>
            ELSE attacked(t)
        sustained(t) ==
            IF t > sustain_start /\ t <= release_start THEN <<sustain, LevelScale>>
                                                        ELSE decayed(t)
        released(t) ==
            IF t > release_start /\ release > 0
            THEN <<sustain * Maximum0(release - (t - release_start)), LevelScale * release>>
            ELSE sustained(t)
    IN  [i \in 1..num_samples |-> released(i - 1)]

(***************************************************************************)
(* The trainer: ProgressionTrainer.__init__ and its operations.            *)
(***************************************************************************)
Init ==
    /\ current_progression = None
    /\ last_progression = None
    /\ last_tonic_inversion = None
    /\ user_answer = None
    /\ pc = "idle"
    /\ num_chords = None
    /\ start_on_tonic = FALSE
    /\ progression = None
    /\ ret = NoReturn
    /\ ncalls = 0
    /\ last_returned = None
    /\ call = NoCall
    /\ result = None
    /\ handler = [s \in Sessions |-> IdleHandler]
    /\ response = [s \in Sessions |-> None]
    /\ deactivated_file = {}
    /\ window = NoWindow

Next ==
    \/ GenerateCall
    \/ CuratedResample
    \/ CuratedReturn
    \/ WalkResample
    \/ WalkReturn
    \/ GetProgressionFrequencies

Spec == Init /\ [][Next]_vars

\* The loops of generate_progression keep running, and a fair random.choice
\* eventually gives a draw that ends the loop whenever one exists.
Fairness ==
    /\ WF_vars(CuratedResample \/ CuratedReturn)
    /\ WF_vars(WalkResample \/ WalkReturn)
    /\ SF_vars(CuratedReturn)
    /\ SF_vars(WalkReturn)

FairSpec == Spec /\ Fairness

\* the trainer with answers submitted between its other operations
NextAnswer ==
    \/ Next
    \/ SubmitAnswer

AnswerSpec == Init /\ [][NextAnswer]_vars

\* the web server with its handlers running concurrently
WebSpec == Init /\ [][NextWeb]_vars

\* the web server with one client, whose requests follow one another, and with a
\* deactivated-chords file of any of the contents above
InitClient ==
    /\ current_progression = None
    /\ last_progression = None
    /\ last_tonic_inversion = None
    /\ user_answer = None
    /\ pc = "idle"
    /\ num_chords = None
    /\ start_on_tonic = FALSE
    /\ progression = None
    /\ ret = NoReturn
    /\ ncalls = 0
    /\ last_returned = None
    /\ call = NoCall
    /\ result = None
    /\ handler = [s \in Sessions |-> IdleHandler]
    /\ response = [s \in Sessions |-> None]
    /\ deactivated_file \in DeactivatedChordLists
    /\ window = NoWindow

NextClient ==
    \/ WebRequest(1)
    \/ WebGenerate(1)
    \/ WebRender(1)

ClientSpec == InitClient /\ [][NextClient]_vars

(***************************************************************************)
(* The progression training window (ui/gui.py): its handlers run one at a  *)
(* time on the window's own trainer.                                       *)
(***************************************************************************)
\* the number of progressions a window asks its trainer for
MaxWindowProgressions == 2

\* self.chord_buttons: the chords of chord_positions (init_ui)
chord_buttons == {"I", "II", "III", "IV", "V", "VI", "VII", "IIIAUG", "III7", "V7"}

\* the items of num_chords_combo as new_progression reads them: None for "Random",
\* int(combo_text) for the others; the numbers are capped by the bound of the model
NumChordsItems == {None} \cup {Some(n) : n \in {k \in 2..5 : k <= MaxChords}}

\* the fields __init__ sets before it calls new_progression (the combo stands at
\* "Random", both checkboxes at their defaults)
NewWindow ==
    [open |-> TRUE, score |-> 0, total |-> 0, current_progression |-> None,
     current_frequencies |-> None, user_progression |-> << >>, guessing_index |-> 0,
     start_on_tonic |-> TRUE, use_common_only |-> FALSE, num_chords_combo |-> None,
     result_label |-> "", chord_buttons_disabled |-> FALSE]

\* check_answer: the answer goes to submit_answer, whose verdict is counted and shown
check_answer(w, self_trainer_current_progression) ==
    LET is_correct == AnswerMatches(w.user_progression, self_trainer_current_progression)
    IN  [w EXCEPT !.total = @ + 1,
                  !.score = IF is_correct THEN @ + 1 ELSE @,
                  !.result_label = IF is_correct THEN "Correct" ELSE "Wrong",
                  !.chord_buttons_disabled = TRUE]

\* guess_chord: the window after the button of chord has been pressed
guess_chord(w, chord, self_trainer_current_progression) ==
    IF w.start_on_tonic /\ w.guessing_index = 0 /\ Len(w.user_progression) = 0
    THEN IF chord # "I"
         THEN [w EXCEPT !.result_label = "First chord should be I",
                        !.user_progression = << >>,
                        !.guessing_index = 0]
         ELSE [w EXCEPT !.user_progression = Append(@, chord),
                        !.guessing_index = @ + 1]
    ELSE LET guessed == [w EXCEPT !.user_progression = Append(@, chord),
                                  !.guessing_index = @ + 1]
         IN  IF Len(guessed.user_progression) = Len(w.current_progression[1])
             THEN check_answer(guessed, self_trainer_current_progression)
             ELSE guessed

\* on_undo_clicked
on_undo_clicked(w) ==
    IF Len(w.user_progression) > 0
    THEN [w EXCEPT !.user_progression = SubSeq(@, 1, Len(@) - 1),
                   !.guessing_index = @ - 1,
                   !.result_label = ""]
    ELSE w

\* The chord buttons a user presses at a window: the tonic, the chord the progression
\* has at the position to be guessed, and one chord that is neither.  (guess_chord
\* compares the chord pressed with I only, and check_answer the whole answer with
\* the progression, so the other buttons act as the third one does.)
PressedButtons(w) ==
    LET position == Len(w.user_progression) + 1
        expected == IF position <= Len(w.current_progression[1])
                    THEN {w.current_progression[1][position]} ELSE {}
        other    == CHOOSE c \in chord_buttons : c \notin ({"I"} \cup expected)
    IN  (({"I"} \cup expected) \cap chord_buttons) \cup {other}

\* new_progression, as a step of the window w and of its trainer
new_progression(w) ==
    /\ ncalls < MaxWindowProgressions
    /\ \E p \in GenerateOutcomes([num_chords      |-> w.num_chords_combo,
                                  start_on_tonic  |-> w.start_on_tonic,
                                  use_common_only |-> w.use_common_only],
                                 last_progression) :
          \E voiced \in {VoiceProgression(p, 0, None, DefaultOctave, TRUE, FALSE,
                                          last_tonic_inversion, << >>)} :
              /\ last_progression' = Some(p)
              /\ current_progression' = Some(p)
              /\ last_returned' = Some(p)
              /\ last_tonic_inversion' =
                     IF Len(p) > 1 THEN Some(voiced[1].inversion) ELSE last_tonic_inversion
              /\ window' = [w EXCEPT
                     !.current_progression = Some(p),
                     !.current_frequencies =
                         Some([j \in 1..Len(voiced) |-> voiced[j].frequencies]),
                     !.user_progression = << >>,
                     !.guessing_index = 0,
                     !.result_label = "",
                     !.chord_buttons_disabled = FALSE]
    /\ ncalls' = Min(ncalls + 1, 2)
    /\ UNCHANGED <<user_answer, pc, num_chords, start_on_tonic, progression, ret>>
    /\ UNCHANGED <<harnessVars, webVars>>

\* the window after __init__: init_ui ends with new_progression on a new trainer
InitGui ==
    /\ pc = "idle"
    /\ num_chords = None
    /\ start_on_tonic = FALSE
    /\ progression = None
    /\ ret = NoReturn
    /\ user_answer = None
    /\ call = NoCall
    /\ result = None
    /\ handler = [s \in Sessions |-> IdleHandler]
    /\ response = [s \in Sessions |-> None]
    /\ deactivated_file = {}
    /\ ncalls = 1
    /\ \E p \in GenerateOutcomes([num_chords      |-> NewWindow.num_chords_combo,
                                  start_on_tonic  |-> NewWindow.start_on_tonic,
                                  use_common_only |-> NewWindow.use_common_only], None) :
          \E voiced \in {VoiceProgression(p, 0, None, DefaultOctave, TRUE, FALSE,
                                          None, << >>)} :
              /\ last_progression = Some(p)
              /\ current_progression = Some(p)
              /\ last_returned = Some(p)
              /\ last_tonic_inversion = IF Len(p) > 1 THEN Some(voiced[1].inversion) ELSE None
              /\ window = [NewWindow EXCEPT
                     !.current_progression = Some(p),
                     !.current_frequencies =
                         Some([j \in 1..Len(voiced) |-> voiced[j].frequencies])]

\* an item of the combo is activated
OnNumChordsChanged ==
    \E item \in NumChordsItems :
        new_progression([window EXCEPT !.num_chords_combo = item])

\* the checkbox "Start on Tonic" changes state
OnStartOnTonicChanged ==
    new_progression([window EXCEPT !.start_on_tonic = ~@])

\* the checkbox of the curated progressions changes state
OnUseCommonChanged ==
    new_progression([window EXCEPT !.use_common_only = ~@])

\* on_play_clicked, play_progression: a progression that was answered is replaced,
\* and the progression is played
OnPlayClicked ==
    IF /\ Len(window.user_progression) = Len(window.current_progression[1])
       /\ window.total > 0
    THEN new_progression(window)
    ELSE UNCHANGED vars

\* a chord button is pressed (a disabled button sends no click); a completed answer
\* goes through check_answer to submit_answer, which stores it
GuessChord ==
    /\ ~window.chord_buttons_disabled
    /\ \E chord \in PressedButtons(window) :
          window' = guess_chord(window, chord, current_progression)
    /\ user_answer' = IF window'.total # window.total THEN Some(window'.user_progression)
                                                      ELSE user_answer
    /\ UNCHANGED <<current_progression, last_progression, last_tonic_inversion, pc,
                   num_chords, start_on_tonic, progression, ret, ncalls, last_returned>>
    /\ UNCHANGED <<harnessVars, webVars>>

OnUndoClicked ==
    /\ window' = on_undo_clicked(window)
    /\ UNCHANGED <<trainerVars, harnessVars, webVars>>

NextGui ==
    \/ OnNumChordsChanged
    \/ OnStartOnTonicChanged
    \/ OnUseCommonChanged
    \/ OnPlayClicked
    \/ GuessChord
    \/ OnUndoClicked

GuiSpec == InitGui /\ [][NextGui]_vars

(***************************************************************************)
(* /api/check-answer (web_app.py).  A chord name travels as JSON text: a   *)
(* sequence of characters.                                                 *)
(***************************************************************************)
\* the characters of the names of the ChordNumber members and of the display name
\* "III+"
Spell == [name \in ChordNumber \cup {"III+"} |->
    CASE name = "I"       -> <<"I">>
      [] name = "IMAJ7"   -> <<"I", "M", "A", "J", "7">>
      [] name = "II"      -> <<"I", "I">>
      [] name = "IIM7"    -> <<"I", "I", "M", "7">>
      [] name = "III"     -> <<"I", "I", "I">>
      [] name = "IIIM7"   -> <<"I", "I", "I", "M", "7">>
      [] name = "IIIAUG"  -> <<"I", "I", "I", "A", "U", "G">>
      [] name = "III7"    -> <<"I", "I", "I", "7">>
      [] name = "IV"      -> <<"I", "V">>
      [] name = "IVMAJ7"  -> <<"I", "V", "M", "A", "J", "7">>
      [] name = "V"       -> <<"V">>
      [] name = "V7"      -> <<"V", "7">>
      [] name = "VI"      -> <<"V", "I">>
      [] name = "VIM7"    -> <<"V", "I", "M", "7">>
      [] name = "VII"     -> <<"V", "I", "I">>
      [] name = "VIIM7B5" -> <<"V", "I", "I", "M", "7", "B", "5">>
      [] name = "III+"    -> <<"I", "I", "I", "+">>]

\* the text /api/progression sends for a chord: name_map.get(chord, chord.name)
EmittedName(chord) == Spell[ChordDisplayName(chord)]

\* str.upper on one character
UpperChar(ch) ==
    CASE ch = "i" -> "I" [] ch = "v" -> "V" [] ch = "m" -> "M" [] ch = "a" -> "A"
      [] ch = "j" -> "J" [] ch = "u" -> "U" [] ch = "g" -> "G" [] ch = "b" -> "B"
      [] ch = "x" -> "X"
      [] OTHER -> ch

\* str.upper
Upper(text) == [k \in 1..Len(text) |-> UpperChar(text[k])]

\* str.strip: the text without its leading and trailing blanks
RECURSIVE Strip(_)
Strip(text) ==
    IF text = << >> THEN text
    ELSE IF text[1] = " " THEN Strip(Tail(text))
    ELSE IF text[Len(text)] = " " THEN Strip(SubSeq(text, 1, Len(text) - 1))
    ELSE text

\* lines 420-421: `if upper.endswith('°'): upper = upper[:-1]`
DropDegreeSign(upper) ==
    IF upper # << >> /\ upper[Len(upper)] = "°" THEN SubSeq(upper, 1, Len(upper) - 1)
    ELSE upper

\* mutant: the display name of the augmented mediant is not translated
AugmentedAlias_none(upper) == upper

\* lines 424-425 and 442-443: `if upper == 'III+': upper = 'IIIAUG'`
AugmentedAlias(upper) == IF upper = Spell["III+"] THEN Spell["IIIAUG"] ELSE upper

\* upper in ChordNumber.__members__
IsMember(upper) == \E c \in ChordNumber : Spell[c] = upper

\* ChordNumber[upper]
MemberNamed(upper) == CHOOSE c \in ChordNumber : Spell[c] = upper

\* an element of user_progression or expected_progression: a ChordNumber member, or
\* a name kept as it came
EnumElement(c) == [is_enum |-> TRUE, member |-> c, text |-> Spell[c]]

RawElement(text) == [is_enum |-> FALSE, member |-> "", text |-> text]

\* lines 413-431, for one name of 'progression': Some(member) or None (unknown chord)
ConvertUserName(chord_name) ==
    LET upper == AugmentedAlias(DropDegreeSign(Upper(Strip(chord_name))))
    IN  IF IsMember(upper) THEN Some(EnumElement(MemberNamed(upper))) ELSE None

\* lines 435-449, for one name of 'expected'
ConvertExpectedName(chord_name) ==
    LET upper == AugmentedAlias(Upper(Strip(chord_name)))
    IN  IF IsMember(upper) THEN EnumElement(MemberNamed(upper)) ELSE RawElement(chord_name)

\* name_map.get(c, c.name) if isinstance(c, ChordNumber) else c
ElementDisplay(element) ==
    IF element.is_enum THEN EmittedName(element.member) ELSE element.text

\* check_answer of web_app.py: the response to the body {progression, expected}
web_check_answer(progression_names, expected_names) ==
    LET converted == [k \in 1..Len(progression_names) |->
                         ConvertUserName(progression_names[k])]
        unknown == {k \in 1..Len(progression_names) : converted[k] = None}
    IN  IF unknown # {}
        THEN [status |-> 400, error |-> "Unknown chord",
              chord |-> progression_names[CHOOSE k \in unknown : \A l \in unknown : k <= l]]
        ELSE LET user_progression == [k \in 1..Len(converted) |-> converted[k][1]]
                 expected_progression == [k \in 1..Len(expected_names) |->
                                             ConvertExpectedName(expected_names[k])]
                 is_correct == user_progression = expected_progression
             IN  IF expected_names = << >>
                 THEN [status |-> 400, error |-> "No expected progression provided."]
                 ELSE [status |-> 200,
                       correct |-> is_correct,
                       actual |-> [k \in 1..Len(expected_progression) |->
                                      ElementDisplay(expected_progression[k])],
                       user |-> [k \in 1..Len(user_progression) |->
                                    ElementDisplay(user_progression[k])]]

(***************************************************************************)
(* The pure functions applied to arguments drawn from bounded sets.        *)
(***************************************************************************)
InversionArgs == (-MaxInversion)..MaxInversion

GetChordNotesCalls ==
    {[fn |-> "get_chord_notes", chord |-> c, inversion |-> k] :
        c \in ChordNumber, k \in InversionArgs}

VoiceDistanceCalls ==
    {[fn |-> "_calculate_optimal_voice_distance", previous_notes |-> p, next_notes |-> n] :
        p \in AllVoicings, n \in AllVoicings}

SelectBestInversionCalls ==
    {[fn |-> "_select_best_inversion", chord |-> c, previous_notes |-> p] :
        c \in ChordNumber, p \in AllVoicings}

\* a chord rendered at an inversion, with or without the bass line, and played
\* through the window or through the web server
RootEmphasisCalls ==
    {x \in [fn : {"play_chord_with_options", "play_chord"}, chord : ChordNumber,
             inversion : 0..3, base_octave : BaseOctaves, include_bass_line : BOOLEAN] :
        x.inversion < NumInversions(x.chord)}

\* the progressions /api/progression can send, as the texts it sends (the chords of
\* every progression of at most MaxChords chords)
EmittedProgressions ==
    {[k \in 1..Len(p) |-> EmittedName(p[k])] :
        p \in UNION {[1..n -> ChordNumber] : n \in 1..MaxChords}}

\* answers as a user types them, and answers that name no chord
TypedProgressions ==
    {<< <<"i", "i">>, <<" ", "V", "7", " ">> >>, << <<"v", "i", "i", "°">> >>,
     << <<"i", "i", "i", "+">> >>, << <<"X">> >>, << >>}

\* an emitted progression sent back as answer and as expected progression, and typed
\* answers against expected progressions
CheckAnswerCalls ==
    {[fn |-> "check_answer", progression |-> p, expected |-> p] : p \in EmittedProgressions}
        \cup {[fn |-> "check_answer", progression |-> p, expected |-> e] :
                 p \in TypedProgressions,
                 e \in {<<Spell["II"], Spell["V7"]>>, <<Spell["VII"]>>, <<Spell["III+"]>>,
                        << <<"X">> >>, << >>}}

\* a tone of an instrument: t has at least one sample
EnvelopeCalls ==
    {[fn |-> "_adsr_envelope", instrument |-> i, num_samples |-> n] :
        i \in DOMAIN InstrumentProfiles, n \in 1..MaxSamples}

InitPure ==
    /\ current_progression = None
    /\ last_progression = None
    /\ last_tonic_inversion = None
    /\ user_answer = None
    /\ pc = "idle"
    /\ num_chords = None
    /\ start_on_tonic = FALSE
    /\ progression = None
    /\ ret = NoReturn
    /\ ncalls = 0
    /\ last_returned = None
    /\ call \in GetChordNotesCalls \cup VoiceDistanceCalls \cup SelectBestInversionCalls
                \cup RootEmphasisCalls \cup EnvelopeCalls \cup CheckAnswerCalls
    /\ result = None
    /\ handler = [s \in Sessions |-> IdleHandler]
    /\ response = [s \in Sessions |-> None]
    /\ deactivated_file = {}
    /\ window = NoWindow

ApplyGetChordNotes ==
    /\ call.fn = "get_chord_notes"
    /\ result = None
    /\ result' = Some(get_chord_notes(call.chord, call.inversion))
    /\ UNCHANGED call
    /\ UNCHANGED trainerVars
    /\ UNCHANGED <<webVars, guiVars>>

\* the result is the state of the function's locals when it returns; the value
\* returned is its field total_distance
ApplyVoiceDistance ==
    /\ call.fn = "_calculate_optimal_voice_distance"
    /\ result = None
    /\ result' = Some(VoiceAssignment(call.previous_notes, call.next_notes))
    /\ UNCHANGED call
    /\ UNCHANGED trainerVars
    /\ UNCHANGED <<webVars, guiVars>>

ApplySelectBestInversion ==
    /\ call.fn = "_select_best_inversion"
    /\ result = None
    /\ result' = Some(_select_best_inversion(call.chord, call.previous_notes))
    /\ UNCHANGED call
    /\ UNCHANGED trainerVars
    /\ UNCHANGED <<webVars, guiVars>>

\* the window plays a chord of the progression: the chord is passed as a ChordNumber
ApplyPlayChordWithOptions ==
    /\ call.fn = "play_chord_with_options"
    /\ result = None
    /\ result' = Some(play_chord_with_options(
                          ChordFrequencies(call.chord,
                                           get_chord_notes(call.chord, call.inversion),
                                           call.base_octave, call.include_bass_line),
                          call.chord))
    /\ UNCHANGED call
    /\ UNCHANGED trainerVars
    /\ UNCHANGED <<webVars, guiVars>>

\* the web server plays a chord: the chord is passed by the name /api/progression
\* gave it
ApplyPlayChord ==
    /\ call.fn = "play_chord"
    /\ result = None
    /\ result' = Some(play_chord(
                          ChordFrequencies(call.chord,
                                           get_chord_notes(call.chord, call.inversion),
                                           call.base_octave, call.include_bass_line),
                          ChordDisplayName(call.chord)))
    /\ UNCHANGED call
    /\ UNCHANGED trainerVars
    /\ UNCHANGED <<webVars, guiVars>>

\* generate_rich_tone computes the envelope of the instrument
ApplyAdsrEnvelope ==
    /\ call.fn = "_adsr_envelope"
    /\ result = None
    /\ result' = Some(LET profile == InstrumentProfiles[call.instrument]
                      IN  _adsr_envelope(call.num_samples, profile.attack, profile.decay,
                                         profile.sustain, profile.release))
    /\ UNCHANGED call
    /\ UNCHANGED trainerVars
    /\ UNCHANGED <<webVars, guiVars>>

\* a POST to /api/check-answer
ApplyCheckAnswer ==
    /\ call.fn = "check_answer"
    /\ result = None
    /\ result' = Some(web_check_answer(call.progression, call.expected))
    /\ UNCHANGED call
    /\ UNCHANGED trainerVars
    /\ UNCHANGED <<webVars, guiVars>>

NextPure ==
    \/ ApplyGetChordNotes
    \/ ApplyVoiceDistance
    \/ ApplySelectBestInversion
    \/ ApplyPlayChordWithOptions
    \/ ApplyPlayChord
    \/ ApplyAdsrEnvelope
    \/ ApplyCheckAnswer

PureSpec == InitPure /\ [][NextPure]_vars

(***************************************************************************)
(* Properties of the generator (checked under Spec and FairSpec).          *)
(***************************************************************************)
\* C1: whenever a generate_progression call returns, in either mode and with any
\* arguments, the progression it returns differs from the progression the call
\* before it returned.
C1_NoImmediateRepeat ==
    [][(pc # "idle" /\ pc' = "idle") => Some(ret'.value) # last_returned]_vars

\* a second call has returned
C1_Witness ==
    /\ ncalls = 2
    /\ pc = "idle"
    /\ ret.op = "generate_progression"
    /\ Len(ret.value) = 1

\* C2 (as claimed): under fair random choice every constrained-walk call with
\* num_chords >= 1 (explicit, or drawn for None) eventually returns.
C2_WalkCallReturns ==
    (pc = "walk" /\ num_chords[1] >= 1) ~> (pc = "idle")

\* C3: under fair random choice every curated-mode call eventually returns; the
\* library holds at least two progressions and they are pairwise distinct.
C3_CuratedCallReturns ==
    /\ (pc = "curated") ~> (pc = "idle")
    /\ [](/\ Len(common_progressions) >= 2
          /\ Cardinality(Range(common_progressions)) = Len(common_progressions))

\* a curated call whose draw repeated the last progression and is drawing again
C3_Witness ==
    /\ pc = "curated"
    /\ progression # None
    /\ progression = last_progression

(***************************************************************************)
(* Properties of the pure functions (checked under PureSpec).              *)
(***************************************************************************)
NotesApplied == call.fn = "get_chord_notes" /\ result # None

\* the multiset of the pitch classes of a voicing: pitch class |-> occurrences
PitchClassBag(notes) ==
    [pitch \in {notes[i] % 12 : i \in 1..Len(notes)} |->
        Cardinality({i \in 1..Len(notes) : notes[i] % 12 = pitch})]

\* C4: for every chord symbol and every inversion k, the multiset of pitch classes
\* of get_chord_notes(chord, k) equals that of get_chord_notes(chord, 0).
C4_PitchClassesKept ==
    NotesApplied =>
        PitchClassBag(result[1]) = PitchClassBag(get_chord_notes(call.chord, 0))

\* a seventh chord in a proper inversion, reached from a negative argument
C4_Witness ==
    /\ NotesApplied
    /\ call.inversion < 0
    /\ Len(result[1]) = 4
    /\ result[1] # get_chord_notes(call.chord, 0)

SameModTwelve(a, b) ==
    /\ Len(a) = Len(b)
    /\ \A i \in 1..Len(a) : a[i] % 12 = b[i] % 12

\* C5 (as claimed): get_chord_notes(chord, k) and get_chord_notes(chord, k + n) are
\* not equal in absolute semitones, but are equal voice by voice modulo 12.
C5_OctaveApart ==
    NotesApplied =>
        LET shifted == get_chord_notes(call.chord, call.inversion + NumInversions(call.chord))
        IN  result[1] # shifted /\ SameModTwelve(result[1], shifted)

\* C5 (amended): get_chord_notes(chord, k) and get_chord_notes(chord, k + n) are equal
\* in absolute semitones, and so equal voice by voice modulo 12.
C5_PeriodIsExact ==
    NotesApplied =>
        LET shifted == get_chord_notes(call.chord, call.inversion + NumInversions(call.chord))
        IN  result[1] = shifted /\ SameModTwelve(result[1], shifted)

\* k and k + n on the two sides of 0, in a proper inversion
C5_Witness ==
    /\ NotesApplied
    /\ call.inversion = -1
    /\ result[1] # get_chord_notes(call.chord, 0)

\* C6: get_chord_notes returns base[k:] followed by base[:k] raised by 12, where
\* base = root + the intervals of the quality and k is the non-negative remainder of
\* the inversion modulo n; the result has n notes and is strictly ascending.
C6_Rotation ==
    NotesApplied =>
        LET root == ChordValue[call.chord][1]
            quality == intervals[ChordValue[call.chord][2]]
            n == Len(quality)
            base == [i \in 1..n |-> root + quality[i]]
            span == Abs(call.inversion) + 1
            k == CHOOSE r \in 0..(n - 1) : \E q \in (-span)..span : call.inversion = q * n + r
            expected == [j \in 1..n |-> IF j + k <= n THEN base[j + k]
                                                      ELSE base[j + k - n] + 12]
        IN  /\ n \in {3, 4}
            /\ result[1] = expected
            /\ Len(result[1]) = n
            /\ \A j \in 1..(n - 1) : result[1][j] < result[1][j + 1]

\* a negative inversion that wraps part of the chord
C6_Witness ==
    /\ NotesApplied
    /\ call.inversion = -2
    /\ call.chord = "V7"
    /\ result[1] = <<14, 17, 19, 23>>

SelectApplied == call.fn = "_select_best_inversion" /\ result # None

\* the total cost of inversion k of the chord of the call against its previous voicing
InversionCost(k) ==
    _calculate_optimal_voice_distance(call.previous_notes, get_chord_notes(call.chord, k))

TonicToDominant ==
    /\ SelectApplied
    /\ call.chord = "V"
    /\ call.previous_notes = <<0, 4, 7>>

\* C8 (as claimed): from the voicing [0,4,7] of I to the chord V, the inversion
\* selected has a total distance strictly less than each other inversion of V.
C8_StrictlyBest ==
    TonicToDominant =>
        \A k \in (0..2) \ {result[1]} : InversionCost(result[1]) < InversionCost(k)

\* C8 (amended): the inversion selected is inversion 0 and its total distance is not
\* greater than that of the other two inversions: all three have total distance 3.
C8_BestButTied ==
    TonicToDominant =>
        /\ result[1] = 0
        /\ \A k \in 0..2 : InversionCost(result[1]) <= InversionCost(k)
        /\ \A k \in 0..2 : InversionCost(k) = 3

C8_Witness ==
    /\ TonicToDominant
    /\ result = Some(0)

DistanceApplied == call.fn = "_calculate_optimal_voice_distance" /\ result # None

\* C9: the previous notes are processed in their order; no index of next_notes is
\* claimed by two of them; exactly min(len(previous_notes), len(next_notes)) previous
\* notes, the first ones, add a distance to the total, and the others add nothing.
C9_OneClaimPerNote ==
    DistanceApplied =>
        LET choices == result[1].choices
            np == Len(call.previous_notes)
            nn == Len(call.next_notes)
            contributors == {i \in 1..Len(choices) : choices[i].best_next_idx >= 0}
        IN  /\ Len(choices) = np
            /\ \A i \in contributors : choices[i].best_next_idx \in 0..(nn - 1)
            /\ \A i \in contributors : \A j \in contributors :
                   i # j => choices[i].best_next_idx # choices[j].best_next_idx
            /\ Cardinality(contributors) = Min(np, nn)
            /\ contributors = 1..Min(np, nn)
            /\ \A i \in contributors :
                   choices[i].best_distance =
                       Some(NearestOctaveDistance(call.previous_notes[i],
                                                  call.next_notes[choices[i].best_next_idx + 1]))
            /\ result[1].total_distance =
                   Sum([i \in 1..Min(np, nn) |-> choices[i].best_distance[1]])
            /\ result[1].assigned_indices =
                   {choices[i].best_next_idx : i \in contributors}

\* four previous notes against a triad: the fourth finds every index claimed
C9_Witness ==
    /\ DistanceApplied
    /\ Len(call.previous_notes) = 4
    /\ Len(call.next_notes) = 3
    /\ result[1].choices[4].best_next_idx = -1
    /\ result[1].total_distance > 0

(***************************************************************************)
(* Properties of get_progression_frequencies (checked under Spec).         *)
(***************************************************************************)
\* the inversions of chord that the first-chord rule may pick when avoid is excluded
FirstChordCandidates(chord, avoid) ==
    {k \in 0..(NumInversions(chord) - 1) : Some(k) # avoid}

\* the distance of the means of inversion k of chord and of next_chord in root position
FirstChordDistance(chord, next_chord, k) ==
    MeanDistance(get_chord_notes(chord, k), get_chord_notes(next_chord, 0))

Rendered ==
    /\ ret.op = "get_progression_frequencies"
    /\ ret.raised = None

\* C11: every chord at an index i > 0 of the current progression is voiced at
\* _select_best_inversion(chord i, the voicing chosen for chord i-1) when
\* use_inversions is set, and at inversion 0 when it is not.
C11_LaterChordInversion ==
    Rendered =>
        \A j \in 2..Len(current_progression[1]) :
            LET chord == current_progression[1][j]
                previous_notes == ret.voicing[j - 1].chord_notes
                k == ret.voicing[j].inversion
            IN  /\ k = IF ret.args.use_inversions
                       THEN _select_best_inversion(chord, previous_notes)
                       ELSE 0
                /\ ret.voicing[j].chord_notes = get_chord_notes(chord, k)

\* a rendering with use_inversions in which a chord is voiced against an inverted
\* chord and gets another inversion than the root position of that chord would give
C11_Witness ==
    /\ Rendered
    /\ ret.args.use_inversions
    /\ \E j \in 2..Len(current_progression[1]) :
           /\ ret.voicing[j - 1].inversion # 0
           /\ ret.voicing[j].inversion # 0
           /\ ret.voicing[j].inversion
                  # _select_best_inversion(current_progression[1][j],
                                           get_chord_notes(current_progression[1][j - 1], 0))

\* C12: get_progression_frequencies called on a trainer on which generate_progression
\* has never returned fails with an error and leaves current_progression,
\* last_progression and last_tonic_inversion as they were; once a
\* generate_progression call has returned it does not fail with that error.
C12_ErrorOnlyBeforeGeneration ==
    [][(pc = "idle" /\ ret'.op = "get_progression_frequencies")
       => IF ncalls = 0
          THEN /\ ret'.raised # None
               /\ ret'.value = << >>
               /\ UNCHANGED <<current_progression, last_progression, last_tonic_inversion>>
          ELSE ret'.raised = None]_vars

\* a rendering asked of a fresh trainer has raised
C12_Witness ==
    /\ ret.op = "get_progression_frequencies"
    /\ ret.raised = Some("ValueError")
    /\ ncalls = 0
    /\ current_progression = None
    /\ last_progression = None
    /\ last_tonic_inversion = None

(***************************************************************************)
(* Properties of submit_answer (checked under AnswerSpec).                 *)
(***************************************************************************)
\* C13: an answer submitted before any progression has been generated is rejected
\* with an error; no verdict is returned.
C13_AnswerRejectedBeforeGeneration ==
    (ret.op = "submit_answer" /\ current_progression = None) => ret.raised # None

\* C14: once a progression has been generated submit_answer returns True exactly
\* when the guess has the length of current_progression and the same chord at every
\* position; a reordering of the chords that changes the sequence gives False.
C14_ExactSequenceEquality ==
    (ret.op = "submit_answer" /\ current_progression # None) =>
        LET guess == ret.args
            correct == current_progression[1]
        IN  /\ ret.raised = None
            /\ ret.value \in BOOLEAN
            /\ ret.value <=> /\ Len(guess) = Len(correct)
                             /\ \A i \in 1..Len(guess) : guess[i] = correct[i]
            /\ (Range(guess) = Range(correct) /\ guess # correct) => ~ret.value
            /\ user_answer = Some(guess)

\* the chords of the progression submitted in another order: the verdict is False
C14_Witness ==
    /\ ret.op = "submit_answer"
    /\ current_progression = Some(<<"I", "IV">>)
    /\ ret.args = <<"IV", "I">>
    /\ ret.value = FALSE

(***************************************************************************)
(* Properties of the progressions returned (checked under Spec).           *)
(***************************************************************************)
\* a generate_progression call has returned and is the latest operation
Generated == ret.op = "generate_progression"

\* C15: a progression returned by constrained-walk mode has exactly num_chords
\* chords for every explicit integer num_chords, and between 2 and 5 chords when
\* num_chords is None; every chord after the first is in the preference-table
\* successor list of the chord before it.
C15_WalkLengthAndSuccessors ==
    (Generated /\ ~ret.args.use_common_only) =>
        /\ IF ret.args.num_chords = None
           THEN Len(ret.value) \in 2..5
           ELSE Len(ret.value) = ret.args.num_chords[1]
        /\ \A i \in 2..Len(ret.value) :
               ret.value[i] \in Range(voice_leading_preferences[ret.value[i - 1]])

\* C16: a generate_progression call with start_on_tonic=True returns a progression
\* that starts with chord I, whatever use_common_only and num_chords are.
C16_StartsOnTonic ==
    (Generated /\ ret.args.start_on_tonic) => ret.value[1] = "I"

(***************************************************************************)
(* Properties of the frequencies rendered (checked under Spec).  A         *)
(* frequency is its number of semitones from A4.                           *)
(***************************************************************************)
\* C17: with include_bass_line every chord's frequency list has one element more
\* than its voicing; the first element is the root of the chord in root position
\* 12 semitones lower (octave base_octave - 1), and it is strictly lower than every
\* other voice of the chord, whatever the chord and the inversion chosen.
C17_BassBelowVoicing ==
    (Rendered /\ ret.args.include_bass_line) =>
        \A j \in 1..Len(current_progression[1]) :
            LET frequencies == ret.value[j]
                chord_notes == ret.voicing[j].chord_notes
                root == ChordValue[current_progression[1][j]][1]
            IN  /\ Len(frequencies) = Len(chord_notes) + 1
                /\ frequencies[1] = root + 12 * (ret.args.base_octave - 4) - 9 - 12
                /\ \A m \in 2..Len(frequencies) : frequencies[1] < frequencies[m]

\* a rendering with a bass line of a chord voiced at an inversion other than 0
C17_Witness ==
    /\ Rendered
    /\ ret.args.include_bass_line
    /\ \E j \in 1..Len(ret.voicing) :
           /\ ret.voicing[j].inversion # 0
           /\ Len(ret.value[j]) = 5

\* C18: for every semitone offset o of a voicing and every base_octave the number of
\* semitones from A4 the renderer computes, (base_octave + floor(o/12) - 4)*12 +
\* (o mod 12) - 9, equals o + 12*(base_octave - 4) - 9; the progression [I] at
\* base_octave 4 is rendered at -9, -5 and -2 semitones from A4 (C4, E4, G4).
C18_SemitonesFromA4 ==
    Rendered =>
        /\ \A j \in 1..Len(ret.voicing) :
               LET chord_notes == ret.voicing[j].chord_notes
                   skip == IF ret.args.include_bass_line THEN 1 ELSE 0
               IN  \A m \in 1..Len(chord_notes) :
                       ret.value[j][m + skip]
                           = chord_notes[m] + 12 * (ret.args.base_octave - 4) - 9
        /\ (/\ current_progression = Some(<<"I">>)
            /\ ret.args.base_octave = 4
            /\ ~ret.args.include_bass_line) => ret.value = << <<-9, -5, -2>> >>

\* a rendering of a voicing that reaches into the second octave above base_octave
\* (an offset of 24 or more), where the octave carries twice
C18_Witness ==
    /\ Rendered
    /\ \E j \in 1..Len(ret.voicing) :
           \E m \in 1..Len(ret.voicing[j].chord_notes) :
               ret.voicing[j].chord_notes[m] >= 24

(***************************************************************************)
(* Properties of the web server (checked under WebSpec).                   *)
(***************************************************************************)
\* the chord a name emitted by /api/progression stands for
ChordOfName(name) == CHOOSE c \in ChordNumber : ChordDisplayName(c) = name

\* C19: with several sessions making /api/progression requests concurrently, in
\* every response the 'frequencies' are a rendering of the progression in the same
\* response's 'progression' field: one frequency list per chord, each the
\* frequencies of an inversion of that chord.
C19_ResponsesConsistent ==
    \A s \in Sessions : \A k \in 1..Len(response[s]) :
        LET r == response[s][k]
        IN  r.status = 200 =>
                /\ Len(r.frequencies) = Len(r.progression)
                /\ \A j \in 1..Len(r.progression) :
                       LET chord == ChordOfName(r.progression[j])
                       IN  \E inversion \in 0..(NumInversions(chord) - 1) :
                               r.frequencies[j]
                                   = ChordFrequencies(chord, get_chord_notes(chord, inversion),
                                                      DefaultOctave, FALSE)

(***************************************************************************)
(* Properties of the root emphasis (checked under PureSpec).               *)
(***************************************************************************)
\* the pitch class (0 = C) of a frequency given as its number of semitones from A4
PitchClass(freq) == (freq + 9) % 12

\* C20: when root emphasis is asked for a chord rendered at any inversion, with or
\* without a bass line, the frequency emphasised has the pitch class of the root of
\* the chord, in the window (chord passed as a ChordNumber) and in the web server
\* (chord passed by the name /api/progression emitted).
C20_EmphasisOnRoot ==
    (call.fn \in {"play_chord_with_options", "play_chord"} /\ result # None) =>
        PitchClass(result[1]) = ChordValue[call.chord][1] % 12

(***************************************************************************)
(* Properties of the envelope (checked under PureSpec).                    *)
(***************************************************************************)
\* two levels are equal as fractions
SameLevel(a, b) == a[1] * b[2] = b[1] * a[2]

\* C21: for every instrument profile and every tone duration the envelope is 0 at
\* t = 0 (1 if attack = 0), is the sustain level at t = total_duration - release,
\* and is 0 at t = total_duration.
C21_EnvelopeLandmarks ==
    (call.fn = "_adsr_envelope" /\ result # None) =>
        LET envelope == result[1]
            profile == InstrumentProfiles[call.instrument]
            total_duration == call.num_samples - 1
            release_start == total_duration - profile.release
        IN  /\ SameLevel(envelope[1], IF profile.attack = 0 THEN <<1, 1>> ELSE <<0, 1>>)
            /\ release_start >= 0 =>
                   SameLevel(envelope[release_start + 1], <<profile.sustain, LevelScale>>)
            /\ SameLevel(envelope[total_duration + 1], <<0, 1>>)

(***************************************************************************)
(* Properties of sequences of operations (checked under Spec, AnswerSpec   *)
(* and WebSpec).                                                           *)
(***************************************************************************)
\* the step is a rendering, without error, of a progression of at least two chords
RendersSeveralChords ==
    /\ pc = "idle"
    /\ ret'.op = "get_progression_frequencies"
    /\ ret'.raised = None
    /\ Len(current_progression[1]) >= 2

\* C22: over any sequence of generate_progression and get_progression_frequencies
\* calls, two consecutive renderings of progressions of at least two chords never
\* choose the same first-chord inversion; renderings of one-chord progressions in
\* between neither count nor reset this.  Stated step by step: last_tonic_inversion
\* is changed by such renderings only, which store the inversion they choose, and
\* the inversion they choose differs from the one stored.
C22_FirstInversionAlternates ==
    [][IF RendersSeveralChords
       THEN /\ Some(ret'.voicing[1].inversion) # last_tonic_inversion
            /\ last_tonic_inversion' = Some(ret'.voicing[1].inversion)
       ELSE last_tonic_inversion' = last_tonic_inversion]_vars

\* a rendering with use_inversions whose first chord is not at the inversion of least
\* distance: that one was chosen by the rendering before
C22_Witness ==
    /\ Rendered
    /\ ret.args.use_inversions
    /\ Len(current_progression[1]) >= 2
    /\ ret.voicing[1].inversion
           # _select_best_inversion_for_next(current_progression[1][1],
                                             current_progression[1][2], None)

\* the responses sent to the single client
ClientResponses == response[1]

\* C23: a progression that /api/progression returns with a success response holds no
\* chord whose emitted name is in the deactivated-chords list (when none can be
\* generated the response is the error 'Could not generate a valid progression').
C23_NoDeactivatedChordReturned ==
    \A k \in 1..Len(ClientResponses) :
        ClientResponses[k].status = 200 =>
            \A j \in 1..Len(ClientResponses[k].progression) :
                ClientResponses[k].progression[j] \notin deactivated_file

\* C24: two consecutive responses to a single client that calls /api/progression
\* sequentially never carry the same progression, also when a non-empty
\* deactivated-chords list makes a request call generate_progression several times.
C24_ConsecutiveResponsesDiffer ==
    \A k \in 2..Len(ClientResponses) :
        (ClientResponses[k - 1].status = 200 /\ ClientResponses[k].status = 200) =>
            ClientResponses[k].progression # ClientResponses[k - 1].progression

(***************************************************************************)
(* The total of _calculate_optimal_voice_distance against the least total  *)
(* of all one-to-one assignments.                                          *)
(***************************************************************************)
\* the one-to-one assignments of np previous notes to nn candidate notes: f[i] is the
\* position of the candidate note given to previous note i, 0 when it gets none; as
\* many previous notes as possible get one
OneToOneAssignments(np, nn) ==
    {f \in [1..np -> 0..nn] :
        /\ \A i, j \in 1..np : (i # j /\ f[i] # 0) => f[i] # f[j]
        /\ Cardinality({i \in 1..np : f[i] # 0}) = Min(np, nn)}

\* the sum of the per-voice distances of an assignment
AssignmentCost(f, previous_notes, next_notes) ==
    Sum([i \in 1..Len(previous_notes) |->
            IF f[i] = 0 THEN 0
            ELSE NearestOctaveDistance(previous_notes[i], next_notes[f[i]])])

LeastAssignmentCost(previous_notes, next_notes) ==
    LET costs == {AssignmentCost(f, previous_notes, next_notes) :
                     f \in OneToOneAssignments(Len(previous_notes), Len(next_notes))}
    IN  CHOOSE c \in costs : \A d \in costs : c <= d

\* C25: for every previous voicing and candidate voicing of vocabulary chords, the
\* total returned by _calculate_optimal_voice_distance equals the least sum of
\* per-voice distances over all one-to-one assignments of previous notes to candidate
\* notes.
C25_TotalIsOptimal ==
    DistanceApplied =>
        result[1].total_distance = LeastAssignmentCost(call.previous_notes, call.next_notes)

(***************************************************************************)
(* The answers a user of the progression training window can reach.        *)
(***************************************************************************)
\* the windows one press of a chord button or of the undo button leads to
PressOutcomes(w) ==
    {on_undo_clicked(w)}
        \cup IF w.chord_buttons_disabled THEN {}
             ELSE {guess_chord(w, chord, w.current_progression) : chord \in PressedButtons(w)}

\* the windows that sequences of such presses lead to from the windows of frontier
RECURSIVE PressClosure(_, _)
PressClosure(seen, frontier) ==
    IF frontier = {} THEN seen
    ELSE LET reached == UNION {PressOutcomes(w) : w \in frontier} \ seen
         IN  PressClosure(seen \cup reached, reached)

\* a progression has been put up and nothing of the answer is entered
ProgressionShown ==
    /\ window.open
    /\ window.user_progression = << >>
    /\ ~window.chord_buttons_disabled

\* C26: for every progression the window gets from its trainer, under every
\* combination of the settings start_on_tonic and use_common_only, some sequence of
\* presses of chord buttons and of the undo button ends with check_answer reporting
\* the answer as correct and the score incremented.
C26_CorrectAnswerReachable ==
    ProgressionShown =>
        \E w \in PressClosure({window}, {window}) :
            /\ w.result_label = "Correct"
            /\ w.score = window.score + 1

(***************************************************************************)
(* What the operations of the trainer leave alone.                         *)
(***************************************************************************)
\* a step of a generate_progression call: its entry, a pass of its loop, its return
GenerateStep == pc # "idle" \/ pc' # "idle"

\* a step that is a whole get_progression_frequencies call
RenderStep == pc = "idle" /\ pc' = "idle" /\ ret'.op = "get_progression_frequencies"

\* a step that is a whole submit_answer call
SubmitStep == pc = "idle" /\ pc' = "idle" /\ ret'.op = "submit_answer"

\* C27: generate_progression never changes last_tonic_inversion or user_answer;
\* get_progression_frequencies never changes current_progression, last_progression
\* or user_answer, and changes last_tonic_inversion only when the current progression
\* has at least two chords; submit_answer changes only user_answer.
C27_FrameEffects ==
    [][/\ GenerateStep =>
              /\ last_tonic_inversion' = last_tonic_inversion
              /\ user_answer' = user_answer
       /\ RenderStep =>
              /\ current_progression' = current_progression
              /\ last_progression' = last_progression
              /\ user_answer' = user_answer
              /\ last_tonic_inversion' # last_tonic_inversion =>
                     (current_progression # None /\ Len(current_progression[1]) >= 2)
       /\ SubmitStep =>
              /\ current_progression' = current_progression
              /\ last_progression' = last_progression
              /\ last_tonic_inversion' = last_tonic_inversion]_vars

\* an answer has been submitted to a trainer that has generated and rendered a
\* progression of several chords
C27_Witness ==
    /\ ret.op = "submit_answer"
    /\ user_answer # None
    /\ current_progression # None
    /\ last_tonic_inversion # None

\* C28: in every reachable state current_progression and last_progression are equal:
\* both None before the first generation, and both the progression most recently
\* returned after any sequence of generate, render and submit operations in either
\* mode.
C28_CurrentIsLast ==
    /\ current_progression = last_progression
    /\ ncalls = 0 => current_progression = None
    /\ ncalls > 0 => (current_progression # None /\ current_progression = last_returned)

\* a second progression has been returned, rendered and answered
C28_Witness ==
    /\ ncalls = 2
    /\ ret.op = "submit_answer"
    /\ last_tonic_inversion # None
    /\ current_progression = last_progression
    /\ Len(current_progression[1]) = MaxChords

(***************************************************************************)
(* The octave window of _calculate_optimal_voice_distance.                 *)
(***************************************************************************)
\* the distance of two notes on the circle of the twelve pitch classes
CircularDistance(prev_note, next_note) ==
    LET up == (next_note - prev_note) % 12
    IN  Min(up, 12 - up)

\* C29: for every note of the previous voicing and every note of the candidate
\* voicing (voicings of vocabulary chords at any inversion), the least of
\* |candidate + 12k - previous| over the octave offsets k in -2..+2 equals the
\* circular pitch-class distance of the two notes, and so is at most 6.
C29_WindowCoversOctaves ==
    DistanceApplied =>
        \A i \in 1..Len(call.previous_notes), j \in 1..Len(call.next_notes) :
            /\ NearestOctaveDistance(call.previous_notes[i], call.next_notes[j])
                   = CircularDistance(call.previous_notes[i], call.next_notes[j])
            /\ NearestOctaveDistance(call.previous_notes[i], call.next_notes[j]) <= 6

\* two notes more than an octave and a half apart: the nearest octave of the
\* candidate is two octaves from its written pitch
C29_Witness ==
    /\ DistanceApplied
    /\ \E i \in 1..Len(call.previous_notes), j \in 1..Len(call.next_notes) :
           Abs(call.next_notes[j] - call.previous_notes[i]) > 18

(***************************************************************************)
(* The names /api/progression sends, sent back to /api/check-answer.       *)
(***************************************************************************)
CheckAnswerApplied == call.fn = "check_answer" /\ result # None

\* the chord whose emitted name is text
ChordEmittedAs(text) == CHOOSE c \in ChordNumber : EmittedName(c) = text

\* C30: every chord name /api/progression can emit (the member name, "III+" for
\* IIIAUG) is accepted by the normalisation of /api/check-answer and maps back to the
\* same ChordNumber member, so an emitted progression sent back unchanged as
\* 'progression' and as 'expected' is answered with correct = true, for all 16 chords.
C30_EmittedNamesRoundTrip ==
    /\ \A c \in ChordNumber :
           /\ ConvertUserName(EmittedName(c)) = Some(EnumElement(c))
           /\ ConvertExpectedName(EmittedName(c)) = EnumElement(c)
    /\ (CheckAnswerApplied /\ call.progression \in EmittedProgressions
                           /\ call.expected = call.progression) =>
           /\ result[1].status = 200
           /\ result[1].correct
           /\ result[1].user = call.progression
           /\ result[1].actual = call.progression

\* a progression with the augmented mediant, emitted as "III+", has been sent back
C30_Witness ==
    /\ CheckAnswerApplied
    /\ call.expected = call.progression
    /\ Len(call.progression) = MaxChords
    /\ \E k \in 1..Len(call.progression) : call.progression[k] = EmittedName("IIIAUG")
    /\ result[1].status = 200
    /\ result[1].correct

====
